---- MODULE Spec2Model ----
(***************************************************************************)
(* A model of the rooted-tree store of rooted_tree (src/src/rooted_tree.rs, *)
(* src/src/clone.rs, src/src/take.rs) with the node capability of           *)
(* src/src/test_data.rs (DataNode), and of its report engine                *)
(* (src/src/report/mod.rs).                                                *)
(*                                                                         *)
(* Option<T> is modelled as a sequence of length at most one:              *)
(*   None == << >>      Some(x) == << x >>                                 *)
(* A node is a record [id, parent_id, child_ids]; child_ids is the Vec of   *)
(* DataNode.  A store is a record [root_node, child_nodes] where           *)
(* child_nodes is a function from its keys to nodes (the HashMap).         *)
(***************************************************************************)
EXTENDS Integers, Sequences, FiniteSets, TLC

(* ------------------------------ bounds --------------------------------- *)

\* identifiers a caller may give to a node: 1..MaxId
MaxId == 3
\* number of calls in one behaviour
MaxOps == 4
\* length of the child-id list a caller may put in a node before inserting it
MaxSupplied == 1
\* largest depth limit (lvl) a caller passes to a bounded traversal
MaxLvl == 3
\* number of nodes of a store that is rendered
MaxNodes == 5
\* largest max_children of a rendering configuration
MaxChildren == 2
\* largest radius (lvl) of select_node in a rendering configuration
MaxRadius == 2
\* number of take / set_parent_id calls on a store that is rendered
MaxDetach == 1

Ids == 1..MaxId
\* an identifier that names no node of the store (an external parent)
ExtId == 0

None == << >>
Some(x) == << x >>

(* ------------------------ node capability ------------------------------ *)

DataNode(id, parent_id, child_ids) ==
  [id |-> id, parent_id |-> parent_id, child_ids |-> child_ids]

Contains(s, x) == \E i \in 1..Len(s) : s[i] = x

\* variant: the node is made its own parent
set_parent_id_self(n, p) == [n EXCEPT !.parent_id = Some(n.id)]

set_parent_id(n, p) == [n EXCEPT !.parent_id = Some(p)]

\* variant: the child id is not recorded
add_child_id_dropped(n, c) == n

add_child_id(n, c) ==
  IF Contains(n.child_ids, c) THEN n
  ELSE [n EXCEPT !.child_ids = Append(n.child_ids, c)]

\* variant: the child id is kept
remove_child_id_kept(n, c) == n

\* variant: every child id is dropped, not only c
remove_child_id_all(n, c) == [n EXCEPT !.child_ids = << >>]

remove_child_id(n, c) ==
  [n EXCEPT !.child_ids = SelectSeq(n.child_ids, LAMBDA x : x # c)]

(* ------------------------------ store ---------------------------------- *)

EmptyMap == [k \in {} |-> 0]

Tree(r, c) == [root_node |-> r, child_nodes |-> c]

new == Tree(None, EmptyMap)

Keys(t) == DOMAIN t.child_nodes

insert(m, k, v) == [x \in (DOMAIN m) \cup {k} |-> IF x = k THEN v ELSE m[x]]

remove(m, k) == [x \in (DOMAIN m) \ {k} |-> m[x]]

get_node(t, id) ==
  IF id \in Keys(t) THEN Some(t.child_nodes[id])
  ELSE IF t.root_node # None /\ t.root_node[1].id = id THEN t.root_node
  ELSE None

\* the store after the node that get_mut_node(id) resolves to is overwritten by n
get_mut_node(t, id, n) ==
  IF id \in Keys(t) THEN [t EXCEPT !.child_nodes[id] = n]
  ELSE IF t.root_node # None /\ t.root_node[1].id = id THEN [t EXCEPT !.root_node = Some(n)]
  ELSE t

\* variant: a node that carries a parent pointer is accepted as the root
add_node_any_root(t, parent_id, node) ==
  IF parent_id = None /\ t.root_node # None
  THEN [tree |-> t, res |-> "RootNodeAlreadyExists"]
  ELSE IF parent_id # None
  THEN IF get_node(t, parent_id[1]) # None
       THEN LET parent_node == add_child_id(get_node(t, parent_id[1])[1], node.id)
                t1 == get_mut_node(t, parent_id[1], parent_node)
                n1 == set_parent_id(node, parent_id[1])
            IN [tree |-> [t1 EXCEPT !.child_nodes = insert(t1.child_nodes, n1.id, n1)],
                res |-> "Ok"]
       ELSE [tree |-> t, res |-> "ParentNodeDoesNotExist"]
  ELSE [tree |-> [t EXCEPT !.root_node = Some(node)], res |-> "Ok"]

\* variant: the node is stored before its parent is looked up
add_node_insert_first(t, parent_id, node) ==
  IF parent_id = None /\ t.root_node # None
  THEN [tree |-> t, res |-> "RootNodeAlreadyExists"]
  ELSE IF parent_id # None
  THEN IF get_node(t, parent_id[1]) # None
       THEN LET parent_node == add_child_id(get_node(t, parent_id[1])[1], node.id)
                t1 == get_mut_node(t, parent_id[1], parent_node)
                n1 == set_parent_id(node, parent_id[1])
            IN [tree |-> [t1 EXCEPT !.child_nodes = insert(t1.child_nodes, n1.id, n1)],
                res |-> "Ok"]
       ELSE [tree |-> [t EXCEPT !.child_nodes = insert(t.child_nodes, node.id, node)],
             res |-> "ParentNodeDoesNotExist"]
  ELSE IF node.parent_id # None
       THEN [tree |-> t, res |-> "RootNodeHasParent"]
       ELSE [tree |-> [t EXCEPT !.root_node = Some(node)], res |-> "Ok"]

\* variant: the parent pointer is set on the parent node as well
add_node_parent_marked(t, parent_id, node) ==
  IF parent_id = None /\ t.root_node # None
  THEN [tree |-> t, res |-> "RootNodeAlreadyExists"]
  ELSE IF parent_id # None
  THEN IF get_node(t, parent_id[1]) # None
       THEN LET parent_node == set_parent_id(
                                 add_child_id(get_node(t, parent_id[1])[1], node.id),
                                 parent_id[1])
                t1 == get_mut_node(t, parent_id[1], parent_node)
                n1 == set_parent_id(node, parent_id[1])
            IN [tree |-> [t1 EXCEPT !.child_nodes = insert(t1.child_nodes, n1.id, n1)],
                res |-> "Ok"]
       ELSE [tree |-> t, res |-> "ParentNodeDoesNotExist"]
  ELSE IF node.parent_id # None
       THEN [tree |-> t, res |-> "RootNodeHasParent"]
       ELSE [tree |-> [t EXCEPT !.root_node = Some(node)], res |-> "Ok"]

\* variant: the node is stored under its parent's id
add_node_keyed_by_parent(t, parent_id, node) ==
  IF parent_id = None /\ t.root_node # None
  THEN [tree |-> t, res |-> "RootNodeAlreadyExists"]
  ELSE IF parent_id # None
  THEN IF get_node(t, parent_id[1]) # None
       THEN LET parent_node == add_child_id(get_node(t, parent_id[1])[1], node.id)
                t1 == get_mut_node(t, parent_id[1], parent_node)
                n1 == set_parent_id(node, parent_id[1])
            IN [tree |-> [t1 EXCEPT !.child_nodes = insert(t1.child_nodes, parent_id[1], n1)],
                res |-> "Ok"]
       ELSE [tree |-> t, res |-> "ParentNodeDoesNotExist"]
  ELSE IF node.parent_id # None
       THEN [tree |-> t, res |-> "RootNodeHasParent"]
       ELSE [tree |-> [t EXCEPT !.root_node = Some(node)], res |-> "Ok"]

add_node(t, parent_id, node) ==
  IF parent_id = None /\ t.root_node # None
  THEN [tree |-> t, res |-> "RootNodeAlreadyExists"]
  ELSE IF parent_id # None
  THEN IF get_node(t, parent_id[1]) # None
       THEN LET parent_node == add_child_id(get_node(t, parent_id[1])[1], node.id)
                t1 == get_mut_node(t, parent_id[1], parent_node)
                n1 == set_parent_id(node, parent_id[1])
            IN [tree |-> [t1 EXCEPT !.child_nodes = insert(t1.child_nodes, n1.id, n1)],
                res |-> "Ok"]
       ELSE [tree |-> t, res |-> "ParentNodeDoesNotExist"]
  ELSE IF node.parent_id # None
       THEN [tree |-> t, res |-> "RootNodeHasParent"]
       ELSE [tree |-> [t EXCEPT !.root_node = Some(node)], res |-> "Ok"]

\* variant: the children of the removed node are removed with it
remove_node_cascade(t, id) ==
  IF id \in Keys(t)
  THEN LET node == t.child_nodes[id]
           kept == {k \in Keys(t) \ {id} : t.child_nodes[k].parent_id # Some(id)}
           t1 == [t EXCEPT !.child_nodes = [k \in kept |-> t.child_nodes[k]]]
           t2 == IF node.parent_id # None /\ get_node(t1, node.parent_id[1]) # None
                 THEN get_mut_node(t1, node.parent_id[1],
                        remove_child_id(get_node(t1, node.parent_id[1])[1], id))
                 ELSE t1
       IN [tree |-> t2, ret |-> Some(node)]
  ELSE [tree |-> [t EXCEPT !.root_node = None], ret |-> t.root_node]

remove_node(t, id) ==
  IF id \in Keys(t)
  THEN LET node == t.child_nodes[id]
           t1 == [t EXCEPT !.child_nodes = remove(t.child_nodes, id)]
           t2 == IF node.parent_id # None /\ get_node(t1, node.parent_id[1]) # None
                 THEN get_mut_node(t1, node.parent_id[1],
                        remove_child_id(get_node(t1, node.parent_id[1])[1], id))
                 ELSE t1
       IN [tree |-> t2, ret |-> Some(node)]
  ELSE [tree |-> [t EXCEPT !.root_node = None], ret |-> t.root_node]

\* len() panics (unreachable!) when there are child nodes and no root
len_aborts(t) == t.root_node = None /\ Keys(t) # {}

\* variant: the root is not counted
len_without_root(t) ==
  IF t.root_node # None THEN Cardinality(Keys(t)) ELSE 0

len(t) ==
  IF t.root_node # None THEN Cardinality(Keys(t)) + 1 ELSE 0

is_subtree(t) ==
  IF t.root_node # None THEN t.root_node[1].parent_id # None ELSE FALSE

(* ---------------------------- traversal -------------------------------- *)

RECURSIVE SetToSeq(_)
\* the ids of S as a sequence; keys() of a HashMap yields them in some order,
\* and every caller of list_child_ids_with_lvl uses the result as a set of ids
SetToSeq(S) ==
  IF S = {} THEN << >>
  ELSE LET m == CHOOSE x \in S : \A y \in S : x <= y
       IN <<m>> \o SetToSeq(S \ {m})

Range(s) == {s[i] : i \in 1..Len(s)}

\* the keys the unbounded downward traversal recurses into from key k:
\* a child id equal to the root's id returns the key set without recursing
Edges(t, k) ==
  IF k \notin Keys(t) THEN {}
  ELSE {c \in Range(t.child_nodes[k].child_ids) :
          /\ c \in Keys(t)
          /\ ~(t.root_node # None /\ t.root_node[1].id = c)}

RECURSIVE ReachFrom(_, _, _)
\* the keys reached from the keys S in at most n recursive calls
ReachFrom(t, S, n) ==
  IF n = 0 THEN S
  ELSE LET next == S \cup UNION {Edges(t, k) : k \in S}
       IN IF next = S THEN S ELSE ReachFrom(t, next, n - 1)

\* list_child_ids_with_lvl(id, None) recurses without end (and the process
\* aborts on stack exhaustion) when the child ids below id contain a cycle
Diverges(t, id) ==
  /\ ~(t.root_node # None /\ t.root_node[1].id = id)
  /\ \E k \in ReachFrom(t, {id}, Cardinality(Keys(t))) :
       k \in ReachFrom(t, Edges(t, k), Cardinality(Keys(t)))

RECURSIVE list_child_ids_from(_, _, _, _, _)
RECURSIVE list_child_ids_with_lvl(_, _, _)
\* lvl is None or Some(n); defined where ~Diverges(t, id) or lvl # None
list_child_ids_with_lvl(t, id, lvl) ==
  IF lvl # None /\ lvl[1] = 0 THEN << >>
  ELSE IF t.root_node # None /\ t.root_node[1].id = id /\ lvl = None
  THEN SetToSeq(Keys(t))
  ELSE LET node == IF t.root_node # None /\ t.root_node[1].id = id THEN t.root_node
                   ELSE IF id \in Keys(t) THEN Some(t.child_nodes[id])
                   ELSE None
       IN IF node = None THEN << >>
          ELSE list_child_ids_from(t, node[1].child_ids, 1,
                                   IF lvl = None THEN None ELSE Some(lvl[1] - 1), << >>)

\* the for loop of list_child_ids_with_lvl over child_ids[i..], appending to out
list_child_ids_from(t, child_ids, i, lvl, out) ==
  IF i > Len(child_ids) THEN out
  ELSE list_child_ids_from(t, child_ids, i + 1, lvl,
         (out \o <<child_ids[i]>>) \o list_child_ids_with_lvl(t, child_ids[i], lvl))

list_child_ids(t, id) == list_child_ids_with_lvl(t, id, None)

RECURSIVE list_parent_ids_with_lvl(_, _, _)
\* variant: the parent pointer of the root is not reported
list_parent_ids_below_root(t, id, lvl) ==
  IF lvl # None /\ lvl[1] = 0 THEN << >>
  ELSE IF id \in Keys(t) /\ t.child_nodes[id].parent_id # None
  THEN LET parent_id == t.child_nodes[id].parent_id[1]
       IN <<parent_id>> \o
          list_parent_ids_with_lvl(t, parent_id,
            IF lvl = None THEN None ELSE Some(lvl[1] - 1))
  ELSE << >>

list_parent_ids_with_lvl(t, id, lvl) ==
  IF lvl # None /\ lvl[1] = 0 THEN << >>
  ELSE LET out == IF id \in Keys(t) /\ t.child_nodes[id].parent_id # None
                  THEN LET parent_id == t.child_nodes[id].parent_id[1]
                       IN <<parent_id>> \o
                          list_parent_ids_with_lvl(t, parent_id,
                            IF lvl = None THEN None ELSE Some(lvl[1] - 1))
                  ELSE << >>
       IN IF t.root_node # None /\ t.root_node[1].id = id /\ t.root_node[1].parent_id # None
          THEN Append(out, t.root_node[1].parent_id[1])
          ELSE out

(* --------------------------- clone and take ---------------------------- *)

\* the entries of child_nodes under the ids of the sequence children
Collect(t, children) == [k \in Range(children) \cap Keys(t) |-> t.child_nodes[k]]

\* variant: the root of the result is always looked up in the child map
clone_from_with_lvl_of_key(t, id, lvl) ==
  IF t.root_node # None /\ t.root_node[1].id = id /\ lvl = None THEN t
  ELSE Tree(IF id \in Keys(t) THEN Some(t.child_nodes[id]) ELSE None,
            Collect(t, list_child_ids_with_lvl(t, id, lvl)))

clone_from_with_lvl(t, id, lvl) ==
  IF t.root_node # None /\ t.root_node[1].id = id /\ lvl = None THEN t
  ELSE LET children == list_child_ids_with_lvl(t, id, lvl)
           root == IF t.root_node # None /\ t.root_node[1].id = id /\ lvl # None
                   THEN t.root_node
                   ELSE IF id \in Keys(t) THEN Some(t.child_nodes[id]) ELSE None
       IN Tree(root, Collect(t, children))

\* variant: only the children of id are copied
clone_from_one_level(t, id) == clone_from_with_lvl(t, id, Some(1))

clone_from(t, id) == clone_from_with_lvl(t, id, None)

\* variant: the id is also removed from the child ids of the nodes that stay
take_unlinked(t, id) ==
  IF t.root_node # None /\ t.root_node[1].id = id
  THEN [tree |-> new, sub |-> t]
  ELSE LET children == list_child_ids(t, id)
           root == IF id \in Keys(t) THEN Some(t.child_nodes[id]) ELSE None
           t1 == [t EXCEPT !.child_nodes = remove(t.child_nodes, id)]
           moved == Range(children) \cap Keys(t1)
       IN [tree |-> Tree(IF t.root_node = None THEN None
                         ELSE Some(remove_child_id(t.root_node[1], id)),
                         [k \in Keys(t1) \ moved |-> remove_child_id(t1.child_nodes[k], id)]),
           sub |-> Tree(root, [k \in moved |-> t1.child_nodes[k]])]

\* variant: the nodes are copied and the source keeps them
take_copy(t, id) == [tree |-> t, sub |-> clone_from_with_lvl(t, id, None)]


take(t, id) ==
  IF t.root_node # None /\ t.root_node[1].id = id
  THEN [tree |-> new, sub |-> t]
  ELSE LET children == list_child_ids(t, id)
           root == IF id \in Keys(t) THEN Some(t.child_nodes[id]) ELSE None
           t1 == [t EXCEPT !.child_nodes = remove(t.child_nodes, id)]
           moved == Range(children) \cap Keys(t1)
       IN [tree |-> [t1 EXCEPT !.child_nodes = [k \in Keys(t1) \ moved |-> t1.child_nodes[k]]],
           sub |-> Tree(root, [k \in moved |-> t1.child_nodes[k]])]

\* the identifiers get_node finds in the store t
StoredIds(t) ==
  Keys(t) \cup (IF t.root_node # None THEN {t.root_node[1].id} ELSE {})

\* the nodes of the store t
StoredNodes(t) ==
  {t.child_nodes[k] : k \in Keys(t)}
    \cup (IF t.root_node # None THEN {t.root_node[1]} ELSE {})

(* ------------------------------ report --------------------------------- *)

\* Config { max_children, child_wrap, select_node }; select_node is None or
\* Some(<<node_id, lvl>>)
Config(max_children, child_wrap, select_node) ==
  [max_children |-> max_children, child_wrap |-> child_wrap, select_node |-> select_node]

\* Config::default()
DefaultConfig == Config(None, "Bottom", None)

Meta(select_nodes) == [select_nodes |-> select_nodes]

\* The text report returns is kept as the sequence of its lines.  A line is
\*   kind "node":    "<prefix> [parent ↜ ]id"  (a stored node)
\*   kind "dashed":  "<prefix> id"             (a child id that is not stored)
\*   kind "elision": "<prefix>"                (the marker of omitted children)
\*   kind "header":  " ╎"                      (above a root that has a parent)
\* lvl is the length of lvl_prefixes the line is printed with, glyph the
\* connector (LvlChar) that ends its prefix, parent the parent id the line
\* shows before " ↜ " (None when it shows none).
Line(kind, id, lvl, glyph) ==
  [kind |-> kind, id |-> id, lvl |-> lvl, glyph |-> glyph, parent |-> None]

\* variant: no node has a parent id to show
get_parent_id_hidden(node) == None

\* get_parent_id_and_len(node), without the width of the label
get_parent_id(node) == node.parent_id

\* the line of a stored node: "<prefix> [parent ↜ ]id"
NodeLine(node, lvl, glyph) ==
  [Line("node", node.id, lvl, glyph) EXCEPT !.parent = get_parent_id(node)]

\* report returned Ok(text)
Text(lines) == [ok |-> TRUE, lines |-> lines]

\* report did not return: a panic (arithmetic overflow, slice index out of
\* range) or a recursion without end
Abort == [ok |-> FALSE, lines |-> << >>]

\* the position (from 0) of the first occurrence of x in s
position(s, x) == (CHOOSE i \in 1..Len(s) : s[i] = x /\ \A j \in 1..(i - 1) : s[j] # x) - 1

\* the loop of format_node over meta.select_nodes: the position among vec_ids
\* of the first id of select_nodes that vec_ids contains, or None
index_node_id(vec_ids, select_nodes) ==
  LET hits == {j \in 1..Len(select_nodes) : Contains(vec_ids, select_nodes[j])}
  IN IF hits = {} THEN None
     ELSE Some(position(vec_ids, select_nodes[CHOOSE j \in hits : \A h \in hits : j <= h]))

\* variant: the Top mode cuts the leading children without a marker
wrap_top_unmarked(config, vec_ids, meta) ==
  IF config.max_children = None \/ Len(vec_ids) <= config.max_children[1]
  THEN [ok |-> TRUE, vec_ids |-> vec_ids, add_wrap_top |-> FALSE]
  ELSE LET max_child == config.max_children[1] IN
       IF meta.select_nodes # << >>
       THEN LET found == index_node_id(vec_ids, meta.select_nodes) IN
            IF found = None
            THEN [ok |-> TRUE, vec_ids |-> vec_ids, add_wrap_top |-> FALSE]
            ELSE IF found[1] < max_child \div 2
            THEN [ok |-> FALSE, vec_ids |-> vec_ids, add_wrap_top |-> FALSE]
            ELSE LET index_node_stop_wrap == found[1] - max_child \div 2 IN
                 IF index_node_stop_wrap = 0
                 THEN [ok |-> TRUE, vec_ids |-> vec_ids, add_wrap_top |-> FALSE]
                 ELSE [ok |-> TRUE,
                       vec_ids |-> SubSeq(vec_ids, index_node_stop_wrap + 1, Len(vec_ids)),
                       add_wrap_top |-> TRUE]
       ELSE IF config.child_wrap = "Top"
       THEN [ok |-> TRUE, vec_ids |-> SubSeq(vec_ids, max_child + 1, Len(vec_ids)),
             add_wrap_top |-> FALSE]
       ELSE [ok |-> TRUE, vec_ids |-> vec_ids, add_wrap_top |-> FALSE]

\* "Wrap top" of format_node: the children that are left to render and
\* whether a leading elision marker is printed.  index_node_id - max_child / 2
\* is computed in usize: below zero it panics (or wraps, and the slice that
\* follows panics)
wrap_top(config, vec_ids, meta) ==
  IF config.max_children = None \/ Len(vec_ids) <= config.max_children[1]
  THEN [ok |-> TRUE, vec_ids |-> vec_ids, add_wrap_top |-> FALSE]
  ELSE LET max_child == config.max_children[1] IN
       IF meta.select_nodes # << >>
       THEN LET found == index_node_id(vec_ids, meta.select_nodes) IN
            IF found = None
            THEN [ok |-> TRUE, vec_ids |-> vec_ids, add_wrap_top |-> FALSE]
            ELSE IF found[1] < max_child \div 2
            THEN [ok |-> FALSE, vec_ids |-> vec_ids, add_wrap_top |-> FALSE]
            ELSE LET index_node_stop_wrap == found[1] - max_child \div 2 IN
                 IF index_node_stop_wrap = 0
                 THEN [ok |-> TRUE, vec_ids |-> vec_ids, add_wrap_top |-> FALSE]
                 ELSE [ok |-> TRUE,
                       vec_ids |-> SubSeq(vec_ids, index_node_stop_wrap + 1, Len(vec_ids)),
                       add_wrap_top |-> TRUE]
       ELSE IF config.child_wrap = "Top"
       THEN [ok |-> TRUE, vec_ids |-> SubSeq(vec_ids, max_child + 1, Len(vec_ids)),
             add_wrap_top |-> TRUE]
       ELSE [ok |-> TRUE, vec_ids |-> vec_ids, add_wrap_top |-> FALSE]

\* variant: the tail is cut for child_wrap = Bottom alone
wrap_bottom_by_config(config, index) ==
  /\ config.max_children # None
  /\ config.child_wrap = "Bottom"
  /\ index = config.max_children[1]

\* variant: a selection switches the cut of the tail off
wrap_bottom_when_unselected(config, index) ==
  /\ config.max_children # None
  /\ config.child_wrap = "Bottom" /\ config.select_node = None
  /\ index = config.max_children[1]

\* variant: the marker comes one child late
wrap_bottom_late(config, index) ==
  /\ config.max_children # None
  /\ config.child_wrap = "Bottom" \/ config.select_node # None
  /\ index = config.max_children[1] + 1

\* "Wrap bottom" of format_node: the child at index (from 0) is replaced by an
\* elision marker and the loop over the children ends
wrap_bottom(config, index) ==
  /\ config.max_children # None
  /\ config.child_wrap = "Bottom" \/ config.select_node # None
  /\ index = config.max_children[1]

RECURSIVE format_node(_, _, _, _, _, _, _)
RECURSIVE format_children(_, _, _, _, _, _, _)
\* format_node on the store t; lvl is the length of lvl_prefixes, suffix the
\* connector of the node's line.  fuel is the number of nested calls left: a
\* path of calls longer than the number of nodes of t repeats a node, and
\* the recursion has no end
format_node(t, config, node, lvl, suffix, meta, fuel) ==
  IF fuel = 0 THEN Abort
  ELSE LET top == wrap_top(config, node.child_ids, meta) IN
       IF ~top.ok THEN Abort
       ELSE LET head == <<NodeLine(node, lvl, suffix)>>
                          \o (IF top.add_wrap_top
                              THEN <<Line("elision", ExtId, lvl + 1, "dash_bar")>>
                              ELSE << >>)
                rest == format_children(t, config, top.vec_ids, 1, lvl, meta, fuel)
            IN IF rest.ok THEN Text(head \o rest.lines) ELSE Abort

\* variant: the loop over the children ends at the first child id that is
\* not stored
format_children_until_unresolved(t, config, vec_ids, i, lvl, meta, fuel) ==
  IF i > Len(vec_ids) THEN Text(<< >>)
  ELSE IF wrap_bottom(config, i - 1)
  THEN Text(<<Line("elision", ExtId, lvl + 1, "dash_bar")>>)
  ELSE LET child_id == vec_ids[i]
           current_end_branch == (i - 1 = Len(vec_ids) - 1)
       IN IF get_node(t, child_id) = None
          THEN Text(<<Line("dashed", child_id, lvl + 1,
                           IF current_end_branch THEN "dash_angle" ELSE "dash_cross")>>)
          ELSE LET this == format_node(t, config, get_node(t, child_id)[1], lvl + 1,
                                       IF current_end_branch THEN "angle" ELSE "cross",
                                       meta, fuel - 1)
               IN IF ~this.ok THEN Abort
                  ELSE LET rest == format_children(t, config, vec_ids, i + 1, lvl, meta, fuel)
                       IN IF rest.ok THEN Text(this.lines \o rest.lines) ELSE Abort

\* the for loop of format_node over vec_ids[i..] (i counts from 1)
format_children(t, config, vec_ids, i, lvl, meta, fuel) ==
  IF i > Len(vec_ids) THEN Text(<< >>)
  ELSE IF wrap_bottom(config, i - 1)
  THEN Text(<<Line("elision", ExtId, lvl + 1, "dash_bar")>>)
  ELSE LET child_id == vec_ids[i]
           current_end_branch == (i - 1 = Len(vec_ids) - 1)
           this == IF get_node(t, child_id) # None
                   THEN format_node(t, config, get_node(t, child_id)[1], lvl + 1,
                                    IF current_end_branch THEN "angle" ELSE "cross",
                                    meta, fuel - 1)
                   ELSE Text(<<Line("dashed", child_id, lvl + 1,
                                    IF current_end_branch THEN "dash_angle" ELSE "dash_cross")>>)
       IN IF ~this.ok THEN Abort
          ELSE LET rest == format_children(t, config, vec_ids, i + 1, lvl, meta, fuel)
               IN IF rest.ok THEN Text(this.lines \o rest.lines) ELSE Abort

\* _report(rooted_tree, config, meta)
report_of(rooted_tree, config, meta) ==
  IF rooted_tree.root_node = None THEN Text(<< >>)
  ELSE LET root == rooted_tree.root_node[1]
           fuel == Cardinality(StoredNodes(rooted_tree)) + 1
       IN IF root.parent_id # None
          THEN LET body == format_node(rooted_tree, config, root, 1, "", meta, fuel)
               IN IF body.ok
                  THEN Text(<<Line("header", ExtId, 0, "dash_bar")>> \o body.lines)
                  ELSE Abort
          ELSE format_node(rooted_tree, config, root, 0, "", meta, fuel)

\* let sub_lvl = lvl + 1 / 2;
sub_lvl(lvl) == lvl + (1 \div 2)

\* the window of report for select_node = Some((node_id, lvl)): the ancestors
\* found, the id rendering starts from, the store that is rendered and the
\* selection path
window(t, node_id, lvl) ==
  LET parent_ids == list_parent_ids_with_lvl(t, node_id, Some(sub_lvl(lvl)))
      root_id == IF parent_ids = << >> THEN node_id ELSE parent_ids[Len(parent_ids)]
  IN [parent_ids |-> parent_ids,
      root_id |-> root_id,
      temp_rooted_tree |-> clone_from_with_lvl(t, root_id, Some(sub_lvl(lvl))),
      meta |-> Meta(<<node_id>> \o parent_ids)]

\* variant: a window without root falls back to the whole tree
report_or_whole(t, config) ==
  IF config.select_node # None
  THEN LET w == window(t, config.select_node[1][1], config.select_node[1][2])
       IN IF w.temp_rooted_tree.root_node = None
          THEN report_of(t, config, Meta(<< >>))
          ELSE report_of(w.temp_rooted_tree, config, w.meta)
  ELSE report_of(t, config, Meta(<< >>))

report(t, config) ==
  IF config.select_node # None
  THEN LET w == window(t, config.select_node[1][1], config.select_node[1][2])
       IN report_of(w.temp_rooted_tree, config, w.meta)
  ELSE report_of(t, config, Meta(<< >>))

(* ------------------------------ state ---------------------------------- *)

\* root_node, child_nodes: the fields of the store (self)
\* sub_tree: the store returned by the last clone_from or take, if any
\* last: the last call, its arguments, what it returned and the store before it
\*       (for report: the store that was rendered)
\* count: how many calls were made, and how many of each outcome (detached:
\*        the take and set_parent_id calls made on a store that is rendered)
\* seen: which identifiers were ever stored, and what kinds of insertion happened
VARIABLES root_node, child_nodes, sub_tree, last, count, seen

vars == <<root_node, child_nodes, sub_tree, last, count, seen>>

self == Tree(root_node, child_nodes)

\* the store before the last call
pre == last.pre

\* the stores at hand: the store itself and the one the last clone_from or
\* take returned
Stores == {self} \cup {sub_tree[i] : i \in 1..Len(sub_tree)}

NoCall == [op |-> "new", parent_id |-> None, node |-> None, id |-> ExtId,
           mutator |-> "", arg |-> ExtId, lvl |-> None, res |-> "", ret |-> None,
           config |-> None, out |-> None, pre |-> new]

NoCount == [ops |-> 0, child_ok |-> 0, entries |-> 0, removals |-> 0, detached |-> 0]

\* ids: the identifiers of the nodes stored so far
\* reused: a node was stored whose identifier had been stored before
\* clash: a node was stored under a parent with the root's identifier, or as
\*        the root with the identifier of a key of the child map
\* supplied: a node was stored that came with child ids of its own
NoneSeen == [ids |-> {}, reused |-> FALSE, clash |-> FALSE, supplied |-> FALSE]

Init ==
  /\ root_node = None
  /\ child_nodes = EmptyMap
  /\ sub_tree = None
  /\ last = NoCall
  /\ count = NoCount
  /\ seen = NoneSeen

RECURSIVE SeqsUpTo(_)
\* the sequences of ids of length at most n
SeqsUpTo(n) ==
  IF n = 0 THEN {<< >>}
  ELSE LET shorter == SeqsUpTo(n - 1)
       IN shorter \cup {Append(s, c) : s \in {x \in shorter : Len(x) = n - 1}, c \in Ids}

\* the child-id lists a caller may put in a node before inserting it
Supplied == {s \in SeqsUpTo(MaxSupplied) : \A i, j \in 1..Len(s) : s[i] = s[j] => i = j}

\* the nodes a caller may pass to add_node
Nodes == {DataNode(i, p, s) : i \in Ids, p \in {None, Some(ExtId)}, s \in Supplied}

OptIds == {None} \cup {Some(i) : i \in Ids}

Clash(t, parent_id, node) ==
  IF parent_id = None THEN node.id \in Keys(t)
  ELSE t.root_node # None /\ t.root_node[1].id = node.id

\* add_node stores a new entry when it sets the root or inserts a new key
NewEntry(t, parent_id, node) ==
  IF parent_id = None THEN 1 ELSE IF node.id \in Keys(t) THEN 0 ELSE 1

AddNode ==
  /\ count.ops < MaxOps
  /\ \E parent_id \in OptIds, node \in Nodes :
       LET r == add_node(self, parent_id, node) IN
       /\ root_node' = r.tree.root_node
       /\ child_nodes' = r.tree.child_nodes
       /\ sub_tree' = None
       /\ last' = [NoCall EXCEPT !.op = "add_node", !.parent_id = parent_id,
                                 !.node = Some(node), !.res = r.res, !.pre = self]
       /\ count' = [count EXCEPT
            !.ops = @ + 1,
            !.child_ok = IF r.res = "Ok" /\ parent_id # None THEN @ + 1 ELSE @,
            !.entries = IF r.res = "Ok" THEN @ + NewEntry(self, parent_id, node) ELSE @]
       /\ seen' = IF r.res # "Ok" THEN seen
                  ELSE [ids |-> seen.ids \cup {node.id},
                        reused |-> seen.reused \/ node.id \in seen.ids,
                        clash |-> seen.clash \/ Clash(self, parent_id, node),
                        supplied |-> seen.supplied \/ node.child_ids # << >>]

RemoveNode ==
  /\ count.ops < MaxOps
  /\ \E id \in Ids :
       LET r == remove_node(self, id) IN
       /\ root_node' = r.tree.root_node
       /\ child_nodes' = r.tree.child_nodes
       /\ sub_tree' = None
       /\ last' = [NoCall EXCEPT !.op = "remove_node", !.id = id, !.ret = r.ret,
                                 !.pre = self]
       /\ count' = [count EXCEPT
            !.ops = @ + 1,
            !.removals = IF r.ret # None THEN @ + 1 ELSE @]
       /\ UNCHANGED seen

Mutators == {"set_parent_id", "add_child_id", "remove_child_id"}

Mutate(n, mutator, arg) ==
  IF mutator = "set_parent_id" THEN set_parent_id(n, arg)
  ELSE IF mutator = "add_child_id" THEN add_child_id(n, arg)
  ELSE remove_child_id(n, arg)

\* get_mut_node(id) followed by one mutator of the node capability on the
\* node it returned (nothing happens when it returned None)
GetMutNode ==
  /\ count.ops < MaxOps
  /\ \E id \in Ids, mutator \in Mutators, arg \in Ids \cup {ExtId} :
       LET found == get_node(self, id)
           t == IF found = None THEN self
                ELSE get_mut_node(self, id, Mutate(found[1], mutator, arg)) IN
       /\ root_node' = t.root_node
       /\ child_nodes' = t.child_nodes
       /\ sub_tree' = None
       /\ last' = [NoCall EXCEPT !.op = "get_mut_node", !.id = id, !.mutator = mutator,
                                 !.arg = arg, !.ret = found, !.pre = self]
       /\ count' = [count EXCEPT !.ops = @ + 1]
       /\ UNCHANGED seen

\* clone_from(id); a call that recurses without end aborts the process and has
\* no successor state
CloneFrom ==
  /\ count.ops < MaxOps
  /\ \E id \in Ids :
       /\ ~Diverges(self, id)
       /\ sub_tree' = Some(clone_from(self, id))
       /\ last' = [NoCall EXCEPT !.op = "clone_from", !.id = id, !.pre = self]
       /\ count' = [count EXCEPT !.ops = @ + 1]
       /\ UNCHANGED seen
       /\ UNCHANGED <<root_node, child_nodes>>

\* clone_from_with_lvl(id, Some(n))
CloneFromWithLvl ==
  /\ count.ops < MaxOps
  /\ \E id \in Ids, n \in 0..MaxLvl :
       /\ sub_tree' = Some(clone_from_with_lvl(self, id, Some(n)))
       /\ last' = [NoCall EXCEPT !.op = "clone_from_with_lvl", !.id = id,
                                 !.lvl = Some(n), !.pre = self]
       /\ count' = [count EXCEPT !.ops = @ + 1]
       /\ UNCHANGED seen
       /\ UNCHANGED <<root_node, child_nodes>>

\* take(id); a call that recurses without end aborts the process and has no
\* successor state
Take ==
  /\ count.ops < MaxOps
  /\ \E id \in Ids :
       /\ ~Diverges(self, id)
       /\ LET r == take(self, id) IN
          /\ root_node' = r.tree.root_node
          /\ child_nodes' = r.tree.child_nodes
          /\ sub_tree' = Some(r.sub)
       /\ last' = [NoCall EXCEPT !.op = "take", !.id = id, !.pre = self]
       /\ count' = [count EXCEPT !.ops = @ + 1]
       /\ UNCHANGED seen

NextAR == AddNode \/ RemoveNode

\* the store driven by add_node and remove_node alone
SpecAR == Init /\ [][NextAR]_vars

Next == AddNode \/ RemoveNode \/ GetMutNode \/ CloneFrom \/ CloneFromWithLvl \/ Take

\* the store driven by its public operations
Spec == Init /\ [][Next]_vars

(* ----------------------- rendering a store ----------------------------- *)

\* the identifiers of a store that is rendered
RIds == 1..MaxNodes

\* add_node(parent_id, DataNode::new(id)) with the next unused id, as the
\* root of a store without root, else under a stored node
AddLeaf ==
  /\ Cardinality(seen.ids) < MaxNodes
  /\ \E parent_id \in {None} \cup {Some(p) : p \in RIds} :
       /\ IF root_node = None THEN parent_id = None
          ELSE parent_id # None /\ parent_id[1] \in StoredIds(self)
       /\ LET node == DataNode(Cardinality(seen.ids) + 1, None, << >>)
              r == add_node(self, parent_id, node) IN
          /\ root_node' = r.tree.root_node
          /\ child_nodes' = r.tree.child_nodes
          /\ sub_tree' = None
          /\ last' = [NoCall EXCEPT !.op = "add_node", !.parent_id = parent_id,
                                    !.node = Some(node), !.res = r.res, !.pre = self]
          /\ count' = [count EXCEPT
               !.ops = @ + 1,
               !.child_ok = IF r.res = "Ok" /\ parent_id # None THEN @ + 1 ELSE @,
               !.entries = IF r.res = "Ok" THEN @ + NewEntry(self, parent_id, node) ELSE @]
          /\ seen' = [seen EXCEPT !.ids = @ \cup {node.id}]

\* take(id) of a stored node: the source keeps the id in its parent's child
\* ids, the returned store is a detached sub-tree
TakeSub ==
  /\ count.detached < MaxDetach
  /\ \E id \in RIds :
       /\ id \in StoredIds(self)
       /\ ~Diverges(self, id)
       /\ LET r == take(self, id) IN
          /\ root_node' = r.tree.root_node
          /\ child_nodes' = r.tree.child_nodes
          /\ sub_tree' = Some(r.sub)
       /\ last' = [NoCall EXCEPT !.op = "take", !.id = id, !.pre = self]
       /\ count' = [count EXCEPT !.ops = @ + 1, !.detached = @ + 1]
       /\ UNCHANGED seen

\* get_mut_node(root id).set_parent_id(ExtId): the store becomes a detached
\* sub-tree
SetRootParent ==
  /\ count.detached < MaxDetach
  /\ root_node # None
  /\ LET id == root_node[1].id
         found == get_node(self, id)
         t == get_mut_node(self, id, set_parent_id(found[1], ExtId)) IN
     /\ root_node' = t.root_node
     /\ child_nodes' = t.child_nodes
     /\ sub_tree' = None
     /\ last' = [NoCall EXCEPT !.op = "get_mut_node", !.id = id,
                               !.mutator = "set_parent_id", !.arg = ExtId,
                               !.ret = found, !.pre = self]
     /\ count' = [count EXCEPT !.ops = @ + 1, !.detached = @ + 1]
     /\ UNCHANGED seen

\* the configurations a caller may pass to report
Configs ==
  {Config(m, w, sel) :
     m \in {None} \cup {Some(n) : n \in 0..MaxChildren},
     w \in {"Top", "Bottom"},
     sel \in {None} \cup {Some(<<id, lvl>>) : id \in RIds, lvl \in 0..MaxRadius}}

\* report(config) on the store or on the store the last take returned; a
\* report leaves the stores as they are, so a report that follows a report
\* reaches nothing new and is left out
Report ==
  \E t \in Stores, config \in Configs :
    /\ last.op # "report"
    /\ last' = [NoCall EXCEPT !.op = "report", !.config = Some(config),
                              !.out = Some(report(t, config)), !.pre = t]
    /\ UNCHANGED <<root_node, child_nodes, sub_tree, count, seen>>

NextR == AddLeaf \/ TakeSub \/ SetRootParent \/ Report

\* stores built node by node, detached at most MaxDetach times, and rendered
SpecR == Init /\ [][NextR]_vars

(* ------------------------------ claims --------------------------------- *)

Removed == last.op = "remove_node"
Added == last.op = "add_node"
AddedOk == Added /\ last.res = "Ok"

RootIs(t, id) == t.root_node # None /\ t.root_node[1].id = id

C2_ChildrenOnlyWithRoot ==
  child_nodes # EmptyMap => root_node # None

\* C3: remove_node(id) with an id that is neither a key of the child map nor
\* the root's id returns nothing and leaves the store unchanged.
C3_RemoveUnknownIsNoop ==
  (Removed /\ last.id \notin Keys(pre) /\ ~RootIs(pre, last.id))
    => (last.ret = None /\ self = pre)

\* the outcome C4 gives for add_node(parent_id, node) on the store t
C4_Outcome(t, parent_id, node) ==
  IF parent_id = None /\ t.root_node # None THEN "RootNodeAlreadyExists"
  ELSE IF parent_id = None /\ t.root_node = None /\ node.parent_id # None
  THEN "RootNodeHasParent"
  ELSE IF parent_id # None /\ parent_id[1] \notin Keys(t) /\ ~RootIs(t, parent_id[1])
  THEN "ParentNodeDoesNotExist"
  ELSE "Ok"

\* C4: add_node fails with RootNodeAlreadyExists when parent_id is absent and
\* a root is present, with RootNodeHasParent when parent_id is absent, there
\* is no root and the node carries a parent pointer, with
\* ParentNodeDoesNotExist when parent_id names no stored node, and succeeds
\* in every other case.
C4_AddNodeOutcome ==
  Added => last.res = C4_Outcome(pre, last.parent_id, last.node[1])

C4_Witness ==
  /\ Added
  /\ last.res = "RootNodeHasParent"
  /\ count.removals >= 1

\* what C5 says of the store t after add_node(Some(p), n) succeeded
C5_Linked(t, p, n) ==
  /\ get_node(t, p) # None
  /\ Contains(get_node(t, p)[1].child_ids, n.id)
  /\ get_node(t, n.id) # None
  /\ get_node(t, n.id)[1].parent_id = Some(p)
  /\ get_node(t, n.id)[1].child_ids = n.child_ids

\* C5 (as stated): after a successful add_node(Some(p), n) the node stored
\* under p lists n's id among its child ids, get_node(n.id) has parent_id p
\* and n's own child ids are as supplied.
C5_AddLinksParentAndChild ==
  (AddedOk /\ last.parent_id # None)
    => C5_Linked(self, last.parent_id[1], last.node[1])

\* C5 (amended): the same, for a node whose id differs from p.
C5_AddLinksParentAndOtherChild ==
  (AddedOk /\ last.parent_id # None /\ last.node[1].id # last.parent_id[1])
    => C5_Linked(self, last.parent_id[1], last.node[1])

C5_Witness ==
  /\ AddedOk
  /\ last.parent_id # None
  /\ last.node[1].id # last.parent_id[1]
  /\ last.parent_id[1] \in Keys(pre)
  /\ last.node[1].child_ids # << >>

\* the stored identifiers one step below / above id
ChildrenOf(t, id) ==
  IF get_node(t, id) = None THEN {}
  ELSE Range(get_node(t, id)[1].child_ids) \cap StoredIds(t)

ParentOf(t, id) ==
  IF get_node(t, id) = None THEN {}
  ELSE Range(get_node(t, id)[1].parent_id) \cap StoredIds(t)

RECURSIVE Closure(_, _, _, _)
\* the identifiers reached from the set S by at most n steps of Step
Closure(Step(_, _), t, S, n) ==
  IF n = 0 THEN S
  ELSE LET next == S \cup UNION {Step(t, k) : k \in S}
       IN IF next = S THEN S ELSE Closure(Step, t, next, n - 1)

\* the stored nodes below id, following child ids
Descendants(t, id) == Closure(ChildrenOf, t, ChildrenOf(t, id), MaxId + 1)

\* the stored nodes above id, following parent ids
Ancestors(t, id) == Closure(ParentOf, t, ParentOf(t, id), MaxId + 1)

ChildAcyclic(t) == \A id \in StoredIds(t) : id \notin Descendants(t, id)

ParentAcyclic(t) == \A id \in StoredIds(t) : id \notin Ancestors(t, id)

C6_RootIsNoKey == root_node # None => root_node[1].id \notin Keys(self)

C6_StoredUnderOwnId == \A k \in Keys(self) : child_nodes[k].id = k

\* C6 (as stated): in every state reachable through add_node and remove_node
\* the root's id is never a key of the child map and every node of the child
\* map is stored under its own id.
C6_IdsUnique == C6_RootIsNoKey /\ C6_StoredUnderOwnId

\* C6 (amended): every node of the child map is stored under its own id, and
\* the root's id is not a key of the child map unless add_node stored a node
\* under a parent while it carried the root's id, or stored a root carrying
\* the id of a key of the child map.
C6_IdsUniqueUnlessClash ==
  /\ C6_StoredUnderOwnId
  /\ ~seen.clash => C6_RootIsNoKey

C6_Witness ==
  /\ ~seen.clash
  /\ seen.reused
  /\ root_node # None
  /\ Cardinality(Keys(self)) >= 2

\* C7 (as stated): in every state reachable through add_node and remove_node
\* every node of the child map has a parent_id naming a stored node whose
\* child ids contain that node's id.
C7_ParentListsChild ==
  \A k \in Keys(self) :
    /\ child_nodes[k].parent_id # None
    /\ get_node(self, child_nodes[k].parent_id[1]) # None
    /\ Contains(get_node(self, child_nodes[k].parent_id[1])[1].child_ids, k)

\* C7 (amended): as long as no identifier is reused, every node of the child
\* map has a parent_id, and when that names a stored node, the node's child
\* ids contain the child's id (the parent of a node may have been removed).
C7_StoredParentListsChild ==
  ~seen.reused =>
    \A k \in Keys(self) :
      /\ child_nodes[k].parent_id # None
      /\ get_node(self, child_nodes[k].parent_id[1]) # None
           => Contains(get_node(self, child_nodes[k].parent_id[1])[1].child_ids, k)

C7_Witness ==
  /\ ~seen.reused
  /\ count.removals >= 1
  /\ \E k \in Keys(self) : get_node(self, child_nodes[k].parent_id[1]) # None

\* C8 (as stated): after add_node insertions in which no identifier is
\* reused, following child ids or parent ids from a stored node never leads
\* back to that node.
C8_TreeShape ==
  (~seen.reused /\ count.removals = 0)
    => (ChildAcyclic(self) /\ ParentAcyclic(self))

\* C8 (amended): as long as no identifier is reused, following parent ids
\* from a stored node never leads back to it, and neither does following
\* child ids when every node was inserted with an empty child-id list.
C8_TreeShapeOfPlainNodes ==
  /\ ~seen.reused => ParentAcyclic(self)
  /\ (~seen.reused /\ ~seen.supplied) => ChildAcyclic(self)

C8_Witness ==
  /\ ~seen.reused
  /\ ~seen.supplied
  /\ count.removals = 0
  /\ \E k \in Keys(self) : child_nodes[k].parent_id[1] \in Keys(self)

\* remove_node(id) was called on a key of the child map
RemovedChild == Removed /\ last.id \in Keys(pre)

\* what C9 says of the call remove_node(id) that led from pre to self
C9_Kept(id) ==
  /\ ~len_aborts(pre) => (~len_aborts(self) /\ len(self) = len(pre) - 1)
  /\ \A d \in Descendants(pre, id) :
       get_node(self, d) # None /\ get_node(self, d) = get_node(pre, d)

C10_Unlinked(id) ==
  LET node == pre.child_nodes[id]
      p == node.parent_id
  IN /\ last.ret = Some(node)
     /\ get_node(self, id) = None
     /\ (p # None /\ p[1] # id /\ get_node(pre, p[1]) # None)
          => /\ get_node(self, p[1]) # None
             /\ ~Contains(get_node(self, p[1])[1].child_ids, id)
             /\ Range(get_node(self, p[1])[1].child_ids)
                  = Range(get_node(pre, p[1])[1].child_ids) \ {id}
             /\ get_node(self, p[1])[1].id = get_node(pre, p[1])[1].id
             /\ get_node(self, p[1])[1].parent_id = get_node(pre, p[1])[1].parent_id

\* C10 (as stated): after remove_node(id) of a node of the child map the
\* returned node is the one stored under id, get_node(id) finds nothing, and
\* the former parent's child ids no longer contain id while its other fields
\* are unchanged.
C10_RemoveUnlinks == RemovedChild => C10_Unlinked(last.id)

\* C10 (amended): the same, for an id that is not also the root's id.
C10_RemoveUnlinksNonRootId ==
  (RemovedChild /\ ~RootIs(pre, last.id)) => C10_Unlinked(last.id)

C10_Witness ==
  /\ RemovedChild
  /\ ~RootIs(pre, last.id)
  /\ pre.child_nodes[last.id].parent_id[1] \in Keys(pre)
  /\ Len(pre.child_nodes[pre.child_nodes[last.id].parent_id[1]].child_ids) >= 2

(* ----------------------- traversal claims ------------------------------ *)

Lvls == 0..MaxLvl

\* the child ids the downward traversal expands at id: those of the root
\* when id is the root's id, else those of the child-map node, else none
ExpandedAt(t, id) ==
  IF RootIs(t, id) THEN Range(t.root_node[1].child_ids)
  ELSE IF id \in Keys(t) THEN Range(t.child_nodes[id].child_ids)
  ELSE {}

\* the ids listed below id, following child ids
ListedBelow(t, id) == Closure(ExpandedAt, t, ExpandedAt(t, id), MaxId + 1)

\* no cycle of child ids is reachable from id
AcyclicBelow(t, id) ==
  \A k \in {id} \cup ListedBelow(t, id) : k \notin ListedBelow(t, k)

RECURSIVE DepthBelow(_, _)
\* the depth of the tree below id: the longest chain of child ids from id
\* (defined where AcyclicBelow(t, id))
DepthBelow(t, id) ==
  IF ExpandedAt(t, id) = {} THEN 0
  ELSE LET ds == {DepthBelow(t, c) : c \in ExpandedAt(t, id)}
       IN 1 + (CHOOSE d \in ds : \A e \in ds : e <= d)

\* what C11 says of the traversals from id in the store t
C11_Within(t, id) ==
  \A n \in Lvls :
    LET bounded == Range(list_child_ids_with_lvl(t, id, Some(n)))
        all == Range(list_child_ids_with_lvl(t, id, None))
    IN /\ bounded \subseteq all
       /\ n >= DepthBelow(t, id) => bounded = all

\* C11: for every store, id and n, list_child_ids_with_lvl(id, Some(n))
\* yields only ids that list_child_ids_with_lvl(id, None) yields, and the two
\* yield the same set of ids once n is at least the depth of the tree below
\* id, for the root id as well as for other ids.
C11_BoundedWithinUnbounded ==
  \A t \in Stores, id \in Ids : AcyclicBelow(t, id) => C11_Within(t, id)

\* the first n entries of the nearest-first chain of parent ids from id's
\* node: it stops at a node with no parent pointer, and an id naming no
\* stored node (an external parent) is its final entry
ParentChain(t, id, n) ==
  LET RECURSIVE chain(_, _)
      chain(k, m) ==
        IF m = 0 \/ get_node(t, k) = None \/ get_node(t, k)[1].parent_id = None
        THEN << >>
        ELSE <<get_node(t, k)[1].parent_id[1]>>
               \o chain(get_node(t, k)[1].parent_id[1], m - 1)
  IN chain(id, n)

\* what C12 says of list_parent_ids_with_lvl(id, Some(n)) on the store t
C12_Chain(t, id, n) ==
  /\ list_parent_ids_with_lvl(t, id, Some(n)) = ParentChain(t, id, n)
  /\ Len(list_parent_ids_with_lvl(t, id, Some(n))) <= n

\* C12 (as stated): list_parent_ids_with_lvl(id, Some(n)) returns the first
\* n entries of the nearest-first chain of parent ids from id's node, never
\* more than n; the chain stops at a node with no parent pointer, and an
\* external parent pointer of the root is the chain's final entry.
C12_FirstParents ==
  \A t \in Stores, id \in Ids, n \in Lvls : C12_Chain(t, id, n)

\* the root's parent pointer, if any, names no stored node
RootParentExternal(t) ==
  t.root_node # None =>
    Range(t.root_node[1].parent_id) \cap StoredIds(t) = {}

\* C12 (amended): the same, for a store whose root's id is not also a key of
\* the child map and whose root's parent pointer, if any, names no stored
\* node.
C12_FirstParentsOfSoundRoot ==
  \A t \in Stores :
    (~(t.root_node # None /\ t.root_node[1].id \in Keys(t)) /\ RootParentExternal(t))
      => \A id \in Ids, n \in Lvls : C12_Chain(t, id, n)

\* a detached sub-tree: a chain through the root ends with its external parent
C12_Witness ==
  \E t \in Stores :
    /\ is_subtree(t)
    /\ t.root_node[1].id \notin Keys(t)
    /\ RootParentExternal(t)
    /\ \E id \in Keys(t) :
         /\ Len(list_parent_ids_with_lvl(t, id, Some(MaxLvl))) >= 2
         /\ Len(list_parent_ids_with_lvl(t, id, Some(1))) = 1

(* ------------------------ clone and take claims ------------------------ *)

Cloned == last.op = "clone_from"
Taken == last.op = "take"

\* the store returned by the last clone_from or take
sub == sub_tree[1]

\* what C13 says of s, the result of clone_from(id) on the store t
C13_Exact(t, id, s) ==
  /\ StoredIds(s) = {id} \cup Descendants(t, id)
  /\ s.root_node # None /\ s.root_node[1].id = id
  /\ \A k \in StoredIds(s) : get_node(s, k) = get_node(t, k)

RootNotBelow(t, id) ==
  t.root_node # None => t.root_node[1].id \notin ListedBelow(t, id)

ClonedWithLvl == last.op = "clone_from_with_lvl"

\* the nodes stored at id: the root when id is its id, and the child-map entry
NodesAt(t, id) ==
  (IF RootIs(t, id) THEN {t.root_node[1]} ELSE {})
    \cup (IF id \in Keys(t) THEN {t.child_nodes[id]} ELSE {})

\* C14 (as stated): clone_from_with_lvl(id, Some(n)) yields a store whose
\* root is the node stored at id, with its parent pointer, and whose child
\* map's keys are exactly the ids list_child_ids_with_lvl(id, Some(n))
\* returns; its len() is one plus the number of those ids.
C14_KeysAreListedIds ==
  \A id \in StoredIds(self), n \in Lvls :
    LET s == clone_from_with_lvl(self, id, Some(n))
        ids == Range(list_child_ids_with_lvl(self, id, Some(n)))
    IN /\ s.root_node # None /\ s.root_node[1] \in NodesAt(self, id)
       /\ Keys(s) = ids
       /\ len(s) = 1 + Cardinality(ids)

\* C14 (amended): the keys are the returned ids that are keys of the
\* original's child map, and len() is one plus the number of those.
C14_KeysAreListedKeys ==
  \A id \in StoredIds(self), n \in Lvls :
    LET s == clone_from_with_lvl(self, id, Some(n))
        ids == Range(list_child_ids_with_lvl(self, id, Some(n))) \cap Keys(self)
    IN /\ s.root_node # None /\ s.root_node[1] \in NodesAt(self, id)
       /\ Keys(s) = ids
       /\ len(s) = 1 + Cardinality(ids)

\* a depth-limited clone of a node that lists an id the child map lacks
C14_Witness ==
  /\ ClonedWithLvl
  /\ last.id \in Keys(pre)
  /\ sub = clone_from_with_lvl(pre, last.id, last.lvl)
  /\ is_subtree(sub)
  /\ Keys(sub) # {}
  /\ Range(list_child_ids_with_lvl(pre, last.id, last.lvl)) \ Keys(pre) # {}

\* what C15 says of r, the result of take(id) on the store t
C15_Moved(t, id, r) ==
  LET moved == {id} \cup Descendants(t, id)
  IN /\ StoredIds(r.tree) \cap moved = {}
     /\ StoredIds(r.sub) = moved
     /\ r.sub.root_node # None /\ r.sub.root_node[1].id = id
     /\ \A k \in moved : get_node(r.sub, k) = get_node(t, k)
     /\ \A k \in StoredIds(t) \ moved : get_node(r.tree, k) = get_node(t, k)

Reported == last.op = "report"

\* the configuration and the result of the last report; pre is the store it
\* rendered
cfg == last.config[1]
txt == last.out[1]

\* the last call was a report in windowed mode
Selected == Reported /\ cfg.select_node # None

target == cfg.select_node[1][1]
radius == cfg.select_node[1][2]

\* the lines of the text that carry the identifier id
LinesOf(id) ==
  {i \in 1..Len(txt.lines) : txt.lines[i].kind \in {"node", "dashed"} /\ txt.lines[i].id = id}

\* C16: for every store and configuration whose select_node target is an id
\* present in the store, the windowed report contains the line of the target
\* node, for every radius and every max_children.
C16_TargetLineShown ==
  (Selected /\ target \in StoredIds(pre)) => (txt.ok /\ LinesOf(target) # {})

\* C17: in windowed mode with select_node = (target, r) the window root that
\* report renders from is the target itself or an ancestor of the target at
\* most floor(r / 2) parent hops above it.
C17_WindowRootWithinHalf ==
  Selected =>
    window(pre, target, radius).root_id
      \in {target} \cup Range(ParentChain(pre, target, radius \div 2))

\* C18: when selection metadata is active and a node has more children than
\* max_children, with the first selection-path id found at index k among its
\* children, the rendered children start at index max(0, k - max / 2) for
\* every k, without failing, and a leading elision marker is emitted exactly
\* when that start index is not zero.  Stated of the node the rendering
\* starts from.
C18_RecentredStart ==
  Selected =>
    LET w == window(pre, target, radius)
        root == w.temp_rooted_tree.root_node
    IN (/\ root # None
        /\ cfg.max_children # None
        /\ Len(root[1].child_ids) > cfg.max_children[1]
        /\ index_node_id(root[1].child_ids, w.meta.select_nodes) # None)
         => LET k == index_node_id(root[1].child_ids, w.meta.select_nodes)[1]
                half == cfg.max_children[1] \div 2
                start == IF k - half > 0 THEN k - half ELSE 0
                r == wrap_top(cfg, root[1].child_ids, w.meta)
            IN /\ r.ok
               /\ r.vec_ids = SubSeq(root[1].child_ids, start + 1, Len(root[1].child_ids))
               /\ r.add_wrap_top = (start # 0)

\* C19: report never fails because of the store's structure: for every store
\* and every configuration it returns a text.
C19_ReportReturns == Reported => txt.ok

\* the last call was a report of the whole tree with child_wrap = Bottom and
\* a max_children
WholeBottom ==
  /\ Reported
  /\ cfg.select_node = None
  /\ cfg.child_wrap = "Bottom"
  /\ cfg.max_children # None

\* line j belongs to what is printed below the node of line i
InBlock(i, j) ==
  /\ j > i
  /\ \A k \in (i + 1)..j : txt.lines[k].lvl > txt.lines[i].lvl

\* the lines printed for the children of the node of line i, in order
KidLines(i) ==
  LET js == SelectSeq([j \in 1..Len(txt.lines) |-> j],
                      LAMBDA j : InBlock(i, j) /\ txt.lines[j].lvl = txt.lines[i].lvl + 1)
  IN [n \in 1..Len(js) |-> txt.lines[js[n]]]

\* the node line i prints: the root for the first node line, else a child
NodeOfLine(i) ==
  IF \A k \in 1..(i - 1) : txt.lines[k].kind # "node"
  THEN pre.root_node[1]
  ELSE get_node(pre, txt.lines[i].id)[1]

\* what C20 says of the lines printed below the node line i
C20_FirstChildren(i) ==
  LET child_ids == NodeOfLine(i).child_ids
      m == cfg.max_children[1]
      kids == KidLines(i)
      shown == IF Len(child_ids) > m THEN m ELSE Len(child_ids)
  IN /\ Len(kids) = IF Len(child_ids) > m THEN m + 1 ELSE Len(child_ids)
     /\ \A j \in 1..shown :
          kids[j].kind \in {"node", "dashed"} /\ kids[j].id = child_ids[j]
     /\ Len(child_ids) > m => kids[m + 1].kind = "elision"

\* C20: in whole-tree mode with child_wrap = Bottom and max_children = m, a
\* node with more than m children renders exactly its first m children
\* followed by exactly one elision marker line, and a node with at most m
\* children renders all of them with no elision marker.
C20_BottomKeepsFirstChildren ==
  WholeBottom =>
    /\ txt.ok
    /\ \A i \in 1..Len(txt.lines) : txt.lines[i].kind = "node" => C20_FirstChildren(i)

\* a report that cuts the children of one node and shows all of another's
C20_Witness ==
  /\ WholeBottom
  /\ txt.ok
  /\ cfg.max_children[1] >= 1
  /\ \E i, j \in 1..Len(txt.lines) :
       /\ txt.lines[i].kind = "node" /\ txt.lines[j].kind = "node"
       /\ Len(NodeOfLine(i).child_ids) > cfg.max_children[1]
       /\ NodeOfLine(j).child_ids # << >>
       /\ Len(NodeOfLine(j).child_ids) <= cfg.max_children[1]

\* the last call was a report of the whole tree with child_wrap = Top and a
\* max_children
WholeTop ==
  /\ Reported
  /\ cfg.select_node = None
  /\ cfg.child_wrap = "Top"
  /\ cfg.max_children # None

\* the lines among ls that print a child (stored or not)
ShownKids(ls) == SelectSeq(ls, LAMBDA l : l.kind \in {"node", "dashed"})

\* the identifiers the lines ls carry, in order
IdsOfLines(ls) == [n \in 1..Len(ls) |-> ls[n].id]

\* C21: in whole-tree mode (no selection metadata) with child_wrap = Top and
\* max_children = m, a node with more than m children drops its leading
\* children beyond the budget and renders only the trailing ones, so that at
\* most m of its children are rendered.
C21_TopKeepsLastChildren ==
  WholeTop =>
    /\ txt.ok
    /\ \A i \in 1..Len(txt.lines) :
         txt.lines[i].kind = "node" =>
           LET child_ids == NodeOfLine(i).child_ids
               n == Len(child_ids)
               shown == IdsOfLines(ShownKids(KidLines(i)))
           IN n > cfg.max_children[1] =>
                /\ Len(shown) <= cfg.max_children[1]
                /\ shown = SubSeq(child_ids, n - Len(shown) + 1, n)

\* C22 as stated: in whole-tree mode with child_wrap = Top no elision marker
\* line is printed among the children of a node.
C22_TopAddsNoMarker ==
  WholeTop =>
    /\ txt.ok
    /\ \A i \in 1..Len(txt.lines) :
         txt.lines[i].kind = "node" =>
           \A k \in 1..Len(KidLines(i)) : KidLines(i)[k].kind # "elision"

\* C22: in whole-tree mode (no selection metadata) with child_wrap = Top,
\* truncating a node's children adds exactly one elision marker line, before
\* the remaining block of children; a node whose children are not truncated
\* gets no marker.
C22_TopAddsOneLeadingMarker ==
  WholeTop =>
    /\ txt.ok
    /\ \A i \in 1..Len(txt.lines) :
         txt.lines[i].kind = "node" =>
           LET kids == KidLines(i)
               truncated == Len(NodeOfLine(i).child_ids) > cfg.max_children[1]
           IN /\ truncated => (kids # << >> /\ kids[1].kind = "elision")
              /\ \A k \in 1..Len(kids) :
                   kids[k].kind = "elision" => (truncated /\ k = 1)

\* a Top report that cuts the children of one node and shows all of another's
C22_Witness ==
  /\ WholeTop
  /\ txt.ok
  /\ \E i, j \in 1..Len(txt.lines) :
       /\ txt.lines[i].kind = "node" /\ txt.lines[j].kind = "node"
       /\ Len(NodeOfLine(i).child_ids) > cfg.max_children[1]
       /\ Len(KidLines(i)) > 1
       /\ NodeOfLine(j).child_ids # << >>
       /\ Len(NodeOfLine(j).child_ids) <= cfg.max_children[1]

\* the store format_node runs on in the last report, and its selection path
rendered == IF cfg.select_node # None THEN window(pre, target, radius).temp_rooted_tree ELSE pre
path == IF cfg.select_node # None THEN window(pre, target, radius).meta ELSE Meta(<< >>)

\* the node line i of the last report prints
RenderedNode(i) ==
  IF \A k \in 1..(i - 1) : txt.lines[k].kind # "node"
  THEN rendered.root_node[1]
  ELSE get_node(rendered, txt.lines[i].id)[1]

\* what the lines ls show: the kind and the identifier of each, in order
Shape(ls) == [n \in 1..Len(ls) |-> <<ls[n].kind, ls[n].id>>]

\* the lines format_node prints for the children of node when there is no
\* selection, with the same max_children and child_wrap
PlainKidLines(node) ==
  LET plain == format_node(rendered, Config(cfg.max_children, cfg.child_wrap, None),
                           node, 0, "", Meta(<< >>),
                           Cardinality(StoredNodes(rendered)) + 1)
  IN SelectSeq(plain.lines, LAMBDA l : l.lvl = 1)

\* line i prints a node with more children than max_children, none of them
\* on the selection path
OffPathCut(i) ==
  /\ txt.lines[i].kind = "node"
  /\ cfg.max_children # None
  /\ Len(RenderedNode(i).child_ids) > cfg.max_children[1]
  /\ index_node_id(RenderedNode(i).child_ids, path.select_nodes) = None

\* C23 as stated: when selection metadata is active but none of a node's
\* children is on the selection path, the node's children are printed as the
\* report without selection prints them for the configured child_wrap.
C23_OffPathAsConfigured ==
  (Selected /\ txt.ok) =>
    \A i \in 1..Len(txt.lines) :
      OffPathCut(i) => Shape(KidLines(i)) = Shape(PlainKidLines(RenderedNode(i)))

\* C23: when selection metadata is active but none of a node's children is on
\* the selection path, that node's children are truncated as in the
\* non-selection Bottom case, whatever child_wrap is configured: the first
\* max_children are kept and one elision marker is appended.
C23_OffPathAsBottom ==
  (Selected /\ txt.ok) =>
    \A i \in 1..Len(txt.lines) :
      OffPathCut(i) =>
        LET m == cfg.max_children[1]
            kids == KidLines(i)
        IN /\ Len(kids) = m + 1
           /\ IdsOfLines(SubSeq(kids, 1, m)) = SubSeq(RenderedNode(i).child_ids, 1, m)
           /\ \A k \in 1..m : kids[k].kind \in {"node", "dashed"}
           /\ kids[m + 1].kind = "elision"

\* a windowed Top report that cuts the children of a node off the path
C23_Witness ==
  /\ Selected
  /\ txt.ok
  /\ cfg.child_wrap = "Top"
  /\ \E i \in 1..Len(txt.lines) :
       /\ OffPathCut(i)
       /\ cfg.max_children[1] >= 1
       /\ Len(KidLines(i)) > 1

\* line j of the last report is the whole of what is printed for its id:
\* the next line, if any, is not deeper
NothingBeneath(j) == j = Len(txt.lines) \/ txt.lines[j + 1].lvl <= txt.lines[j].lvl

\* C24: a child id that is in a node's child-id set but absent from the store
\* is rendered as exactly one line carrying that id with a dashed connector,
\* with no lines rendered beneath it, and rendering of the remaining siblings
\* continues (without max_children every child id of a printed node has its
\* line, in order).
C24_UnresolvedChildIsOneDashedLine ==
  (Reported /\ txt.ok) =>
    /\ \A i \in 1..Len(txt.lines) :
         txt.lines[i].kind = "node" =>
           LET kids == KidLines(i) IN
           /\ cfg.max_children = None => IdsOfLines(kids) = RenderedNode(i).child_ids
           /\ \A k \in 1..Len(kids) :
                kids[k].kind # "elision" =>
                  (kids[k].kind = "dashed" <=> get_node(rendered, kids[k].id) = None)
    /\ \A j \in 1..Len(txt.lines) :
         txt.lines[j].kind = "dashed" =>
           /\ txt.lines[j].glyph \in {"dash_angle", "dash_cross"}
           /\ NothingBeneath(j)
           /\ LinesOf(txt.lines[j].id) = {j}

\* a report that prints an unresolved child id and then a stored sibling with
\* a child of its own
C24_Witness ==
  /\ Reported
  /\ txt.ok
  /\ \E j \in 1..Len(txt.lines) :
       /\ txt.lines[j].kind = "dashed"
       /\ j + 2 <= Len(txt.lines)
       /\ txt.lines[j + 1].kind = "node"
       /\ txt.lines[j + 1].lvl = txt.lines[j].lvl
       /\ txt.lines[j + 2].lvl > txt.lines[j + 1].lvl

\* the last call was a report of the whole tree without max_children
WholePlain ==
  /\ Reported
  /\ cfg.select_node = None
  /\ cfg.max_children = None

\* the lines of the last report that print a stored node
NodeLines == {i \in 1..Len(txt.lines) : txt.lines[i].kind = "node"}

\* the line of the node under which line i is printed
LineAbove(i) ==
  {p \in NodeLines : InBlock(p, i) /\ txt.lines[i].lvl = txt.lines[p].lvl + 1}

OnPathCut(i) ==
  /\ txt.lines[i].kind = "node"
  /\ cfg.max_children # None
  /\ Len(RenderedNode(i).child_ids) > cfg.max_children[1]
  /\ index_node_id(RenderedNode(i).child_ids, path.select_nodes) # None

\* the index (from 0) the children of the node of line i are rendered from
\* after recentring
RecentredStart(i) ==
  index_node_id(RenderedNode(i).child_ids, path.select_nodes)[1] - cfg.max_children[1] \div 2

\* C26: with selection metadata active and max_children = m, after
\* recentering a node's children on the selection path at most m children
\* are rendered from the recentered start, followed by a single trailing
\* elision marker exactly when more than m remain, regardless of whether
\* child_wrap is Top or Bottom.
C26_RecentredTailCut ==
  (Selected /\ txt.ok) =>
    \A i \in 1..Len(txt.lines) :
      OnPathCut(i) =>
        LET m == cfg.max_children[1]
            child_ids == RenderedNode(i).child_ids
            start == RecentredStart(i)
            remain == SubSeq(child_ids, start + 1, Len(child_ids))
            lead == IF start # 0 THEN 1 ELSE 0
            shown == IF Len(remain) > m THEN m ELSE Len(remain)
            kids == KidLines(i)
        IN /\ start >= 0
           /\ Len(kids) = lead + shown + (IF Len(remain) > m THEN 1 ELSE 0)
           /\ IdsOfLines(SubSeq(kids, lead + 1, lead + shown)) = SubSeq(remain, 1, shown)
           /\ \A k \in (lead + 1)..(lead + shown) : kids[k].kind \in {"node", "dashed"}
           /\ Len(remain) > m => kids[Len(kids)].kind = "elision"

\* a windowed Top report that recentres the children of a node past the
\* first and cuts the tail that remains
C26_Witness ==
  /\ Selected
  /\ txt.ok
  /\ cfg.child_wrap = "Top"
  /\ \E i \in 1..Len(txt.lines) :
       /\ OnPathCut(i)
       /\ cfg.max_children[1] >= 1
       /\ RecentredStart(i) > 0
       /\ Len(RenderedNode(i).child_ids) - RecentredStart(i) > cfg.max_children[1]

\* the last call was take(id) with an id other than the root's
TakenBelowRoot == Taken /\ ~RootIs(pre, last.id)

\* C27: take(id) of a non-root node changes nothing in the nodes left behind:
\* the former parent keeps id in its child-id set (a now unresolved child id)
\* and keeps its own parent pointer, and all other remaining nodes are
\* unchanged.
C27_TakeLeavesRestUnchanged ==
  TakenBelowRoot =>
    /\ root_node = pre.root_node
    /\ Keys(self) \subseteq Keys(pre)
    /\ \A k \in Keys(self) : child_nodes[k] = pre.child_nodes[k]
    /\ \A n \in StoredNodes(self) :
         \E o \in StoredNodes(pre) :
           /\ o.id = n.id
           /\ o.parent_id = n.parent_id
           /\ Contains(o.child_ids, last.id) => Contains(n.child_ids, last.id)

\* take of a stored node whose parent is itself a child: the parent stays,
\* keeps the id and its parent pointer, and the id is no longer stored
C27_Witness ==
  /\ TakenBelowRoot
  /\ last.id \in Keys(pre)
  /\ get_node(self, last.id) = None
  /\ \E k \in Keys(self) :
       /\ Contains(child_nodes[k].child_ids, last.id)
       /\ child_nodes[k].parent_id # None
       /\ pre.child_nodes[last.id].parent_id = Some(k)

\* the last call was an add_node that returned an error
AddedErr == Added /\ last.res \in {"RootNodeAlreadyExists", "RootNodeHasParent",
                                   "ParentNodeDoesNotExist"}

\* C28: whenever add_node returns an error (RootNodeAlreadyExists,
\* RootNodeHasParent or ParentNodeDoesNotExist), the store is left exactly as
\* it was before the call: same root, same child map, same parent pointers
\* and child-id sets.
C28_FailedAddChangesNothing ==
  (Added /\ last.res # "Ok") =>
    /\ AddedErr
    /\ root_node = pre.root_node
    /\ child_nodes = pre.child_nodes

\* an add_node under an id that is not stored, refused on a store that has a
\* root and a child
C28_Witness ==
  /\ Added
  /\ last.res = "ParentNodeDoesNotExist"
  /\ pre.root_node # None
  /\ Keys(pre) # {}
  /\ last.node[1].id \notin StoredIds(pre)

\* C29: a store that is built from empty using only add_node and remove_node
\* never becomes a detached sub-tree: is_subtree() is false in every
\* reachable state.
C29_NeverSubtree == ~is_subtree(self)

\* a store with a root and a child, after a removal and after the add_node
\* of a child that arrived with a parent pointer of its own
C29_Witness ==
  /\ ~is_subtree(self)
  /\ root_node # None
  /\ Keys(self) # {}
  /\ count.removals > 0
  /\ Added
  /\ last.parent_id # None
  /\ last.node[1].parent_id # None
  /\ last.res = "Ok"

\* the last call was a windowed report whose target is not stored, on a
\* store that is not empty
SelectedAbsent ==
  /\ Selected
  /\ pre.root_node # None
  /\ target \notin StoredIds(pre)

\* C30: report with a select_node target that names no node of a non-empty
\* store returns a successful result containing no node line at all (only a
\* newline); it neither reports an error nor falls back to rendering the
\* whole tree.
C30_AbsentTargetGivesEmptyText ==
  SelectedAbsent => (txt.ok /\ txt.lines = << >>)

\* a windowed report on a store with a root and children whose target is an
\* id that a node still lists but that is no longer stored
C30_Witness ==
  /\ SelectedAbsent
  /\ txt.ok
  /\ Keys(pre) # {}
  /\ Contains(pre.root_node[1].child_ids, target)
  /\ radius >= 1

====
